---- MODULE Spec2Model ----
(***************************************************************************)
(* A model of the jtorch stages Linear and SpatialDivisiveNormalization:   *)
(* construction, loadFromFile, init and forwardProp, together with the     *)
(* OpenCL kernels of linear.cpp, executed work-item by work-item.          *)
(* Floats are modelled by integers (exact arithmetic); tensors are records *)
(* [id, dim, data] whose id is the identity of the device buffer.          *)
(***************************************************************************)
EXTENDS Integers, Sequences, FiniteSets, TLC

VARIABLES
  dev,       \* limits reported by the OpenCL device / kernel
  file,      \* the words of the model file handed to loadFromFile
  linear,    \* the Linear stage (NoLinear before construction)
  sdn,       \* the SpatialDivisiveNormalization stage
  cl,        \* dispatcher: currently selected kernel and bound arguments
  launches,  \* launches handed to runKernel by the most recent forwardProp
  ret,       \* outcome of the most recent operation
  stream,    \* the ifstream over file: read position and failbit
  nextId,    \* next fresh tensor identity
  live,      \* identities of the tensors and host buffers now allocated
  calls,     \* number of forwardProp calls made so far
  lastArg,   \* the tensor argument of the most recent constructor or
             \* forwardProp call
  pending,   \* command queue: launches enqueued and not yet completed
  chain,     \* a tensor followed by the outputs of the Reshape stages run
             \* on it one after the other
  hdr,       \* the sizes Linear::loadFromFile computes from a header
  coef       \* the host-side coefficient loops of init: their inputs, their
             \* position, and the buffer indices they have used so far

vars ==
  <<dev, file, stream, linear, sdn, cl, launches, ret, nextId, live, calls,
    lastArg, pending, chain, hdr, coef>>

\* The variables no operation of Linear or SpatialDivisiveNormalization on
\* small tensors touches.
rest == <<chain, hdr, coef>>

----------------------------------------------------------------------------
(* Bounds of the model *)

MaxOut == 2        \* n_outputs of a Linear record in a file
MaxIn == 3         \* n_inputs of a Linear record in a file
MaxRows == 5       \* n_outputs of a directly constructed Linear
MaxCalls == 2      \* forwardProp calls per run

FloatVals == {0, 1}     \* values of thresholds and of unread floats
UninitInts == {0, 1, 2} \* values an unread int32 header field may hold
DevLimitVals == {1, 2, 3, 4, 17}  \* a device limit, as seen by the heuristic

----------------------------------------------------------------------------
(* Tensors *)

Min(a, b) == IF a < b THEN a ELSE b

RECURSIVE Product(_)
Product(s) == IF s = <<>> THEN 1 ELSE Head(s) * Product(Tail(s))

NULL == [id |-> 0, dim |-> <<>>, data |-> <<>>]

\* Tensor<float>(dim, size): a fresh zero-initialised buffer.
Tensor(id, size) ==
  [id |-> id, dim |-> size, data |-> [j \in 0 .. Product(size) - 1 |-> 0]]

\* Tensor construction rejects an extent of 0 and a dimensionality outside 1..3.
TensorShapeOk(size) ==
  /\ Len(size) \in 1 .. 3
  /\ \A d \in 1 .. Len(size) : size[d] > 0

\* Tensor::setData(host): bulk copy of exactly dataSize elements.
setData(t, host) == [t EXCEPT !.data = [j \in DOMAIN t.data |-> host[j]]]

----------------------------------------------------------------------------
(* The OpenCL kernels of kLinearKernel *)

\* The element of A that the kernels read for (row, column k): A is taken
\* as M rows by N columns "stored column major".
AIndex(row, k, M) == row + M * k

\* for (k = get_global_id(COL_DIM); k < N; k += get_global_size(COL_DIM))
\*   sum += A[get_global_id(ROW_DIM) + M * k] * X[k];
RECURSIVE PartialDot(_, _, _, _, _, _, _)
PartialDot(A, X, M, N, row, k, stride) ==
  IF k >= N THEN 0
  ELSE A[AIndex(row, k, M)] * X[k]
       + PartialDot(A, X, M, N, row, k + stride, stride)

\* while (cols > 1) { cols >>= 1;
\*   if (jj < cols) work[ii + rows*jj] += work[ii + rows*(jj + cols)]; barrier }
RECURSIVE Reduce(_, _, _)
Reduce(work, rows, cols) ==
  IF cols <= 1 THEN work
  ELSE LET c == cols \div 2
       IN Reduce([idx \in DOMAIN work |->
                    IF idx \div rows < c
                    THEN work[idx] + work[idx + rows * c]
                    ELSE work[idx]], rows, c)

\* One launch of MatVecMultThreads over global_size with work-groups of
\* local_size; the value left in Y.
MatVecMultThreads(A, X, M, N, global_size, local_size) ==
  [row \in 0 .. global_size[0] - 1 |->
     LET rows == local_size[0]
         cols == local_size[1]
         ii   == row % rows
         base == row - ii
         work == [idx \in 0 .. rows * cols - 1 |->
                    PartialDot(A, X, M, N, base + (idx % rows), idx \div rows,
                               global_size[1])]
     IN Reduce(work, rows, cols)[ii]]

\* output[x_out] += biases[x_out]
Accum(output, biases) == [x_out \in DOMAIN output |-> output[x_out] + biases[x_out]]

----------------------------------------------------------------------------
(* Work partition of Linear::forwardProp *)

\* p = min(16, min(max_item_size[1], max_worksize))
ColFactor(d) == Min(16, Min(d.maxItem[1], d.kernelMaxWG))

\* local_size[0] = min(n_outputs_ / p + 1, getMaxWorkgroupSize / p)
RowFactorStart(n_outputs, p, d) == Min(n_outputs \div p + 1, d.maxWG \div p)

\* while ((n_outputs_ % local_size[0] != 0 ||
\*         local_size[0] * local_size[1] > max_worksize) && local_size[0] > 1)
\*   local_size[0]--;
\* Called with l0 >= 1 (l0 = 0 makes the first test divide by zero).
RECURSIVE ShrinkRows(_, _, _, _)
ShrinkRows(n_outputs, l0, l1, max_worksize) ==
  IF ((n_outputs % l0) # 0 \/ l0 * l1 > max_worksize) /\ l0 > 1
  THEN ShrinkRows(n_outputs, l0 - 1, l1, max_worksize)
  ELSE l0

\* The outcomes of the partition code: the row factor, or, when the start
\* value is 0, the outcomes of the undefined n_outputs_ % 0: a trap, or a
\* quotient that leaves the loop at once with local_size[0] = 0.
PartitionOutcomes(n_outputs, d) ==
  LET p  == ColFactor(d)
      l0 == RowFactorStart(n_outputs, p, d)
  IN IF l0 = 0
     THEN {[trap |-> TRUE, divZero |-> TRUE, p |-> p, l0 |-> 0],
           [trap |-> FALSE, divZero |-> TRUE, p |-> p, l0 |-> 0]}
     ELSE {[trap |-> FALSE, divZero |-> FALSE, p |-> p,
            l0 |-> ShrinkRows(n_outputs, l0, p, d.kernelMaxWG)]}

\* runKernel with a local size: the local size must divide the global size
\* and respect the device and kernel maxima, else the launch is refused.
LaunchLegal(global_size, local_size, d) ==
  /\ \A i \in DOMAIN global_size :
       /\ local_size[i] >= 1
       /\ (global_size[i] % local_size[i]) = 0
       /\ local_size[i] <= d.maxItem[i]
  /\ local_size[0] * local_size[1] <= d.kernelMaxWG
  /\ local_size[0] * local_size[1] <= d.maxWG

----------------------------------------------------------------------------
(* The dispatcher (cl_context): kernel selection, argument binding *)

KernelNames ==
  {"MatVecMultThreads", "Accum",
   "SpatialDivisiveNormalizationHoriz", "SpatialDivisiveNormalizationVert",
   "SpatialDivisiveNormalization2D", "SpatialDivisiveNormalizationAccumDiv",
   "SpatialDivisiveNormalization"}

NoArgs == [i \in {} |-> [kind |-> "int", v |-> 0]]

\* Source identities: the inline string kLinearKernel and the kernel file.
kLinearKernel == "kLinearKernel"
SDNKernelFile == "kernels/spatial_divisive_normalization.cl"

\* No kernel selected; every kernel object without bound arguments; nothing
\* compiled.  bound is the set of argument indices bound since the most
\* recent kernel selection; compiles counts the compilations of each
\* (source identity, entry name) pair.
FreshContext ==
  [kernel |-> "", args |-> [k \in KernelNames |-> NoArgs], bound |-> {},
   compiles |-> [k \in {} |-> 0]]

\* useKernel without the cache lookup: every request compiles.
useKernel_NoCache(c, source, name) ==
  [c EXCEPT !.kernel = name, !.bound = {},
            !.compiles = [k \in DOMAIN @ \cup {<<source, name>>} |->
                            IF k = <<source, name>>
                            THEN (IF k \in DOMAIN @ THEN @[k] ELSE 0) + 1
                            ELSE @[k]]]

\* useKernel / useKernelCStr: look the (source, entry name) pair up in the
\* cache, compile it on the first request, and select the kernel object.
useKernel(c, source, name) ==
  [c EXCEPT !.kernel = name, !.bound = {},
            !.compiles = IF <<source, name>> \in DOMAIN @ THEN @
                         ELSE [k \in DOMAIN @ \cup {<<source, name>>} |->
                                 IF k = <<source, name>> THEN 1 ELSE @[k]]]

\* setArg(index, val): bind one positional argument of the selected kernel.
setArg(c, index, val) ==
  [c EXCEPT !.args[c.kernel] =
              [i \in DOMAIN @ \cup {index} |-> IF i = index THEN val ELSE @[i]],
            !.bound = @ \cup {index}]

BufArg(t) == [kind |-> "buffer", v |-> t.id]
IntArg(n) == [kind |-> "int", v |-> n]
LocalArg(n) == [kind |-> "local", v |-> n]

\* runKernel / runKernel3D: the launch handed to the command queue.
Launch(c, global_size, local_size) ==
  [kernel |-> c.kernel, args |-> c.args[c.kernel], bound |-> c.bound,
   global |-> global_size, local |-> local_size]

\* Signatures of the kernels of kLinearKernel: number of parameters and
\* index of the buffer written (Y of MatVecMultThreads, output of Accum,
\* which it also reads).
LinearKernelArity(name) == IF name = "MatVecMultThreads" THEN 6 ELSE 2
LinearWriteArg(name) == IF name = "MatVecMultThreads" THEN 2 ELSE 0

\* Signatures of the kernels of the kernel file: every pass writes its
\* second buffer.
SDNKernelArity(name) ==
  CASE name = "SpatialDivisiveNormalizationHoriz" -> 4
    [] name = "SpatialDivisiveNormalizationVert" -> 4
    [] name = "SpatialDivisiveNormalization2D" -> 5
    [] name = "SpatialDivisiveNormalizationAccumDiv" -> 5
    [] name = "SpatialDivisiveNormalization" -> 3
SDNWriteArg(name) == 1

KernelArity(name) ==
  IF name \in {"MatVecMultThreads", "Accum"}
  THEN LinearKernelArity(name) ELSE SDNKernelArity(name)

WriteArg(name) ==
  IF name \in {"MatVecMultThreads", "Accum"}
  THEN LinearWriteArg(name) ELSE SDNWriteArg(name)

Dim1(n) == [i \in {0} |-> n]
Dim2(a, b) == [i \in {0, 1} |-> IF i = 0 THEN a ELSE b]

----------------------------------------------------------------------------
(* Reading the model file *)

\* file.read of count words into a buffer: the words available are stored,
\* the rest of the buffer keeps what it held (fill).
ReadWords(f, st, count, fill) ==
  [j \in 0 .. count - 1 |->
     IF ~st.fail /\ st.pos + j <= Len(f) THEN f[st.pos + j] ELSE fill]

\* The stream after that read: a short read sets failbit, and every later
\* read on a failed stream reads nothing.
ReadAdvance(f, st, count) ==
  IF st.fail \/ st.pos + count - 1 > Len(f)
  THEN [pos |-> Len(f) + 1, fail |-> TRUE]
  ELSE [pos |-> st.pos + count, fail |-> FALSE]

----------------------------------------------------------------------------
(* Linear *)

NoLinear ==
  [n_inputs_ |-> 0, n_outputs_ |-> 0,
   output |-> NULL, weights_ |-> NULL, biases_ |-> NULL]

\* Linear::Linear(n_inputs, n_outputs)
Linear_Linear(n_inputs, n_outputs, id) ==
  [n_inputs_ |-> n_inputs, n_outputs_ |-> n_outputs,
   output   |-> Tensor(id, <<n_outputs>>),
   weights_ |-> Tensor(id + 1, <<n_outputs, n_inputs>>),
   biases_  |-> Tensor(id + 2, <<n_outputs>>)]

\* The three Tensor constructions of the constructor succeed.
Linear_ShapesOk(n_inputs, n_outputs) ==
  /\ TensorShapeOk(<<n_outputs>>)
  /\ TensorShapeOk(<<n_outputs, n_inputs>>)

\* RASSERT(cond): the call goes on only when cond holds.
RASSERT(cond) == cond

\* A variant that forgets the test of the dimensionality.
Linear_init_NoDim(l, input) ==
  /\ RASSERT(input.type = "TENSOR_DATA")
  /\ RASSERT(input.dim[1] = l.n_inputs_)

\* Linear::init
Linear_init(l, input) ==
  /\ RASSERT(input.type = "TENSOR_DATA")
  /\ RASSERT(Len(input.dim) = 1 /\ input.dim[1] = l.n_inputs_)

\* Payloads: all ones, or the ramp 1, 2, 3, ... (pairwise different).
Payloads(n) == {[j \in 0 .. n - 1 |-> 1], [j \in 0 .. n - 1 |-> j + 1]}

NoInput ==
  [type |-> "NONE", id |-> 0, dim |-> <<>>, data |-> [j \in {} |-> 0]]

\* The inputs handed to Linear::forwardProp: 1-D tensors of every length up
\* to maxLen, a 2-D tensor, and a TorchData that is not a tensor.
InputIds == {-1, -2}

LinearInputs(maxLen) ==
  UNION {
    {[type |-> "TENSOR_DATA", id |-> -1, dim |-> <<n>>, data |-> x] :
       x \in Payloads(n)} : n \in 1 .. maxLen}
  \cup {[type |-> "TENSOR_DATA", id |-> -1, dim |-> <<1, 1>>,
         data |-> [j \in {0} |-> 1]],
        [type |-> "TABLE_DATA", id |-> -1, dim |-> <<>>,
         data |-> [j \in {} |-> 0]]}

\* Explicit construction: new Linear(n_inputs, n_outputs).
LinearConstruct(n_inputs, n_outputs) ==
  /\ linear = NoLinear
  /\ ret = "init"
  /\ linear' = Linear_Linear(n_inputs, n_outputs, nextId)
  /\ nextId' = nextId + 3
  /\ live' = live \cup {nextId, nextId + 1, nextId + 2}
  /\ ret' = "constructed"
  /\ UNCHANGED <<dev, file, stream, sdn, cl, launches, calls, lastArg,
               pending, rest>>

\* Linear::loadFromFile(file)
LinearLoadFromFile ==
  /\ linear = NoLinear
  /\ ~sdn.constructed
  /\ ret = "init"
  /\ \E g1 \in UninitInts, g2 \in UninitInts, gf \in FloatVals :
       LET n_outputs == ReadWords(file, stream, 1, g1)[0]
           s1        == ReadAdvance(file, stream, 1)
           n_inputs  == ReadWords(file, s1, 1, g2)[0]
           s2        == ReadAdvance(file, s1, 1)
           stage     == Linear_Linear(n_inputs, n_outputs, nextId)
           n_weights == n_outputs * n_inputs
           weights_cpu == ReadWords(file, s2, n_weights, gf)
           s3        == ReadAdvance(file, s2, n_weights)
           bias_cpu  == ReadWords(file, s3, n_outputs, gf)
           s4        == ReadAdvance(file, s3, n_outputs)
       IN IF ~Linear_ShapesOk(n_inputs, n_outputs)
          THEN /\ ret' = "InvalidShape"
               /\ stream' = s2
               /\ UNCHANGED <<linear, nextId, live>>
          ELSE /\ linear' = [stage EXCEPT
                               !.weights_ = setData(@, weights_cpu),
                               !.biases_  = setData(@, bias_cpu)]
               /\ nextId' = nextId + 3
               /\ live' = live \cup {nextId, nextId + 1, nextId + 2}
               /\ stream' = s4
               /\ ret' = "loaded"
  /\ UNCHANGED <<dev, file, sdn, cl, launches, calls, lastArg, pending, rest>>

\* Linear::forwardProp(input)
\* The bias pass bound without its second argument.
DispatchAccum_NoBias(c, l) ==
  setArg(useKernel(c, kLinearKernel, "Accum"), 0, BufArg(l.output))

\* forwardProp, lines 140-148: bind the arguments of MatVecMultThreads.
BindMatVec(c, l, input, local_size) ==
  setArg(setArg(setArg(setArg(setArg(setArg(c,
    0, BufArg(l.weights_)),
    1, BufArg(input)),
    2, BufArg(l.output)),
    3, LocalArg(local_size[0] * local_size[1])),
    4, IntArg(l.n_outputs_)),
    5, IntArg(l.n_inputs_))

\* forwardProp, lines 154-156: select and bind Accum.
DispatchAccum(c, l) ==
  setArg(setArg(useKernel(c, kLinearKernel, "Accum"),
    0, BufArg(l.output)),
    1, BufArg(l.biases_))

LinearForwardProp(input) ==
  /\ linear # NoLinear
  /\ ret # "Trap"
  /\ calls < MaxCalls
  /\ calls' = calls + 1
  /\ lastArg' = input
  /\ UNCHANGED <<dev, file, stream, sdn, nextId, live, rest>>
  /\ IF ~Linear_init(linear, input)
     THEN /\ ret' = "AssertFailed"
          /\ launches' = <<>>
          /\ UNCHANGED <<linear, cl, pending>>
     ELSE \E part \in PartitionOutcomes(linear.n_outputs_, dev) :
       LET c0 == useKernel(cl, kLinearKernel, "MatVecMultThreads")
           global_size == Dim2(linear.n_outputs_, part.p)
           local_size  == Dim2(part.l0, part.p)
           c1 == BindMatVec(c0, linear, input, local_size)
           Y  == MatVecMultThreads(linear.weights_.data, input.data,
                                   linear.n_outputs_, linear.n_inputs_,
                                   global_size, local_size)
           c2 == DispatchAccum(c1, linear)
       IN IF part.trap
          THEN /\ ret' = "Trap"
               /\ cl' = c0
               /\ launches' = <<>>
               /\ UNCHANGED <<linear, pending>>
          ELSE IF ~LaunchLegal(global_size, local_size, dev)
          THEN \* runKernel refuses the launch it was handed
               /\ ret' = "InvalidWorkSize"
               /\ cl' = c1
               /\ launches' = <<Launch(c1, global_size, local_size)>>
               /\ UNCHANGED <<linear, pending>>
          ELSE /\ linear' = [linear EXCEPT
                               !.output.data = Accum(Y, linear.biases_.data)]
               /\ cl' = c2
               /\ launches' = <<Launch(c1, global_size, local_size),
                                Launch(c2, Dim1(linear.n_outputs_),
                                       [i \in {} |-> 0])>>
               /\ pending' = pending \o launches'
               /\ ret' = "ok"

----------------------------------------------------------------------------
(* Exact arithmetic for the host-side float computations of                *)
(* SpatialDivisiveNormalization::init: a float is a fraction [n, d] in     *)
(* lowest terms; d = 0 stands for the result of a division by 0.0f.        *)

RECURSIVE GCD(_, _)
GCD(a, b) == IF b = 0 THEN a ELSE GCD(b, a % b)

Abs(x) == IF x < 0 THEN -x ELSE x

Frac(n, d) ==
  IF d = 0 THEN [n |-> IF n = 0 THEN 0 ELSE 1, d |-> 0]
  ELSE LET g == GCD(Abs(n), Abs(d))
           sg == IF d < 0 THEN -1 ELSE 1
       IN [n |-> sg * (n \div g), d |-> sg * (d \div g)]

FAdd(x, y) == Frac(x.n * y.d + y.n * x.d, x.d * y.d)
FMul(x, y) == Frac(x.n * y.n, x.d * y.d)
FDivInt(x, k) == Frac(x.n, x.d * k)

RECURSIVE FSum(_, _)
FSum(S, term) ==
  IF S = {} THEN Frac(0, 1)
  ELSE LET e == CHOOSE e \in S : TRUE
       IN FAdd(term[e], FSum(S \ {e}, term))

RECURSIVE IntSum(_)
IntSum(f) ==
  IF DOMAIN f = {} THEN 0
  ELSE LET j == CHOOSE j \in DOMAIN f : TRUE
       IN f[j] + IntSum([k \in DOMAIN f \ {j} |-> f[k]])

\* sqrtf, on the feature counts of the model (perfect squares).
sqrtf(x) == CHOOSE r \in 0 .. x : r * r = x

----------------------------------------------------------------------------
(* SpatialDivisiveNormalization *)

TensorFields ==
  <<"output", "kernel_", "kernel_norm_", "std_coef_",
    "std_pass1_", "std_pass2_", "std_">>

NoSDN ==
  [constructed |-> FALSE, threshold_ |-> 0,
   output |-> NULL, kernel_ |-> NULL, kernel_norm_ |-> NULL,
   std_coef_ |-> NULL, std_pass1_ |-> NULL, std_pass2_ |-> NULL,
   std_ |-> NULL]

\* Tensor<float>::clone(t): a fresh buffer with the shape and contents of t.
clone(t, id) == [t EXCEPT !.id = id]

\* A variant that forgets the channel depth.
KernelRejected_NoDepth(kernel) ==
  \/ kernel.dim[1] % 2 = 0
  \/ kernel.dim[2] % 2 = 0

\* The test of the constructor: the kernel is rejected when it holds.
KernelRejected(kernel) ==
  \/ kernel.dim[1] % 2 = 0
  \/ kernel.dim[2] % 2 = 0
  \/ kernel.dim[3] # 1

\* SpatialDivisiveNormalization(kernel, threshold), past the test.
SDN_SDN(kernel, threshold, id) ==
  [NoSDN EXCEPT !.constructed = TRUE,
                !.kernel_ = clone(kernel, id),
                !.threshold_ = threshold]

\* init, lines 50-53: a FloatTensor is expected.
SDN_TypeOk(input) == input.type = "TENSOR_DATA"

\* init and the destructor work on m = [s: the stage, next: the next fresh
\* identity, live: the allocated identities].
SAFE_DELETE(m, f) ==
  IF m.s[f] # NULL
  THEN [m EXCEPT !.s[f] = NULL, !.live = @ \ {m.s[f].id}]
  ELSE m

RECURSIVE DeleteAll(_, _)
DeleteAll(m, fields) ==
  IF fields = <<>> THEN m
  ELSE DeleteAll(SAFE_DELETE(m, Head(fields)), Tail(fields))

New(m, f, dim) ==
  [m EXCEPT !.s[f] = Tensor(m.next, dim),
            !.next = @ + 1,
            !.live = @ \cup {m.next}]

\* A variant that tears the stage down on every call.
InitRelease_Always(m, in) ==
  IF m.s.output # NULL
  THEN DeleteAll(m, <<"output", "kernel_norm_", "std_coef_",
                      "std_pass1_", "std_pass2_", "std_">>)
  ELSE m

\* init, lines 55-66: the input dimension has changed.
InitRelease(m, in) ==
  IF m.s.output # NULL /\ in.dim # m.s.output.dim
  THEN DeleteAll(m, TensorFields)
  ELSE m

\* init, lines 67-74.
InitOutput(m, in) ==
  IF m.s.output = NULL
  THEN New(New(New(m, "output", in.dim), "std_pass1_", in.dim),
           "std_pass2_", in.dim)
  ELSE m

\* A variant that normalises the kernel again on every call.
InitKernelNorm_Always(m, in, kernel) ==
  [m EXCEPT
     !.s.kernel_norm_ =
       [id |-> m.next, dim |-> kernel.dim,
        data |-> [j \in DOMAIN kernel.data |->
                    Frac(kernel.data[j], IntSum(kernel.data) * in.dim[3])]],
     !.next = @ + 1,
     !.live = (@ \ {m.s.kernel_norm_.id}) \cup {m.next}]

\* init, lines 75-84: clone and normalise the kernel that kernel_ points to.
InitKernelNorm(m, in, kernel) ==
  IF m.s.kernel_norm_ = NULL
  THEN LET onedim_kernel == kernel.dim[2] = 1
           n_feats == in.dim[3]
           sum     == IntSum(kernel.data)
           div_val == IF onedim_kernel THEN sum * sqrtf(n_feats)
                      ELSE sum * n_feats
       IN [m EXCEPT
             !.s.kernel_norm_ =
               [id |-> m.next, dim |-> kernel.dim,
                data |-> [j \in DOMAIN kernel.data |->
                            Frac(kernel.data[j], div_val)]],
             !.next = @ + 1,
             !.live = @ \cup {m.next}]
  ELSE m

\* The (v_filt, u_filt) offsets of a pixel whose source pixel is inside.
Inside(u, v, width, height, rad_u, rad_v) ==
  {o \in (-rad_v .. rad_v) \X (-rad_u .. rad_u) :
     /\ u + o[2] >= 0 /\ u + o[2] < width
     /\ v + o[1] >= 0 /\ v + o[1] < height}

\* init, lines 101-123: std_coef_cpu for a 1-D kernel.
StdCoef1D(kernel_norm_cpu, kernel_size, width, height, n_feats) ==
  LET filt_rad == (kernel_size - 1) \div 2
  IN [idx \in 0 .. width * height - 1 |->
        LET u == idx % width
            v == idx \div width
            S == Inside(u, v, width, height, filt_rad, filt_rad)
        IN FDivInt(FSum(S, [o \in S |->
                     FMul(kernel_norm_cpu[o[1] + filt_rad],
                          kernel_norm_cpu[o[2] + filt_rad])]), n_feats)]

\* init, lines 124-147: std_coef_cpu for a 2-D kernel.
StdCoef2D(kernel_norm_cpu, kernel_size_u, kernel_size_v, width, height, n_feats) ==
  LET filt_rad_u == (kernel_size_u - 1) \div 2
      filt_rad_v == (kernel_size_v - 1) \div 2
  IN [idx \in 0 .. width * height - 1 |->
        LET u == idx % width
            v == idx \div width
            S == Inside(u, v, width, height, filt_rad_u, filt_rad_v)
        IN FDivInt(FSum(S, [o \in S |->
                     kernel_norm_cpu[(o[1] + filt_rad_v) * kernel_size_u
                                     + (o[2] + filt_rad_u)]]), n_feats)]

\* init, lines 85-151.
InitStdCoef(m, kernel) ==
  IF m.s.std_coef_ = NULL
  THEN LET out == m.s.output
           kn  == m.s.kernel_norm_
           std_coeff_dim == <<out.dim[1], out.dim[2], 1>>
           onedim_kernel == kernel.dim[2] = 1
           n_feats == out.dim[3]
           height  == out.dim[2]
           width   == out.dim[1]
           std_coef_cpu ==
             IF onedim_kernel
             THEN StdCoef1D(kn.data, kn.dim[1], width, height, n_feats)
             ELSE StdCoef2D(kn.data, kn.dim[1], kn.dim[2], width, height,
                            n_feats)
       IN [m EXCEPT
             !.s.std_coef_ = setData(Tensor(m.next, std_coeff_dim),
                                     std_coef_cpu),
             !.next = @ + 1,
             !.live = @ \cup {m.next}]
  ELSE m

\* init, lines 152-159.
InitStd(m) ==
  IF m.s.std_ = NULL
  THEN New(m, "std_", <<m.s.output.dim[1], m.s.output.dim[2], 1>>)
  ELSE m

\* init past the type test, given the tensor that kernel_ points to.
SDN_init(m, in, kernel) ==
  InitStd(InitStdCoef(InitKernelNorm(InitOutput(InitRelease(m, in), in),
                                     in, kernel), kernel))

\* What a read through kernel_ may find once kernel_ is NULL.
WildKernels ==
  {[id |-> 0, dim |-> <<1, 1, 1>>, data |-> [j \in {0} |-> 1]],
   [id |-> 0, dim |-> <<1, 3, 1>>, data |-> [j \in 0 .. 2 |-> 1]]}

Dim3(dim) == [i \in 0 .. 2 |-> dim[i + 1]]
FloatArg(x) == [kind |-> "float", v |-> x]
NoLocal == [i \in {} |-> 0]

\* The vertical pass filtering std_pass2_ in place.
DispatchVert_InPlace(c, s, filt_rad) ==
  setArg(setArg(setArg(setArg(
    useKernel(c, SDNKernelFile, "SpatialDivisiveNormalizationVert"),
    0, BufArg(s.std_pass2_)), 1, BufArg(s.std_pass2_)),
    2, BufArg(s.kernel_norm_)), 3, IntArg(filt_rad))

\* The final pass with its first two arguments exchanged.
DispatchNormalization_InPlace(c, s, in) ==
  setArg(setArg(setArg(
    useKernel(c, SDNKernelFile, "SpatialDivisiveNormalization"),
    0, BufArg(s.output)), 1, BufArg(in)), 2, BufArg(s.std_))

\* forwardProp, lines 174-178: select and bind the horizontal pass.
DispatchHoriz(c, s, in, filt_rad) ==
  setArg(setArg(setArg(setArg(
    useKernel(c, SDNKernelFile, "SpatialDivisiveNormalizationHoriz"),
    0, BufArg(in)), 1, BufArg(s.std_pass1_)),
    2, BufArg(s.kernel_norm_)), 3, IntArg(filt_rad))

\* forwardProp, lines 182-186: select and bind the vertical pass.
DispatchVert(c, s, filt_rad) ==
  setArg(setArg(setArg(setArg(
    useKernel(c, SDNKernelFile, "SpatialDivisiveNormalizationVert"),
    0, BufArg(s.std_pass1_)), 1, BufArg(s.std_pass2_)),
    2, BufArg(s.kernel_norm_)), 3, IntArg(filt_rad))

\* forwardProp, lines 193-198: select and bind the 2-D pass.
Dispatch2D(c, s, in, filt_rad_u, filt_rad_v) ==
  setArg(setArg(setArg(setArg(setArg(
    useKernel(c, SDNKernelFile, "SpatialDivisiveNormalization2D"),
    0, BufArg(in)), 1, BufArg(s.std_pass2_)),
    2, BufArg(s.kernel_norm_)), 3, IntArg(filt_rad_u)),
    4, IntArg(filt_rad_v))

\* forwardProp, lines 203-208: select and bind the accumulate/divide pass.
DispatchAccumDiv(c, s) ==
  setArg(setArg(setArg(setArg(setArg(
    useKernel(c, SDNKernelFile, "SpatialDivisiveNormalizationAccumDiv"),
    0, BufArg(s.std_pass2_)), 1, BufArg(s.std_)),
    2, BufArg(s.std_coef_)), 3, IntArg(s.output.dim[3])),
    4, FloatArg(s.threshold_))

\* forwardProp, lines 212-215: select and bind the normalisation pass.
DispatchNormalization(c, s, in) ==
  setArg(setArg(setArg(
    useKernel(c, SDNKernelFile, "SpatialDivisiveNormalization"),
    0, BufArg(in)), 1, BufArg(s.output)), 2, BufArg(s.std_))

\* forwardProp, lines 164-216: the launches, after init.
SDN_launches(c, s, in, kernel) ==
  LET onedim_kernel == kernel.dim[2] = 1
      filt_rad   == (s.kernel_norm_.dim[1] - 1) \div 2
      filt_rad_v == (s.kernel_norm_.dim[2] - 1) \div 2
      h == DispatchHoriz(c, s, in, filt_rad)
      v == DispatchVert(h, s, filt_rad)
      t == Dispatch2D(c, s, in, filt_rad, filt_rad_v)
      f == IF onedim_kernel THEN v ELSE t
      a == DispatchAccumDiv(f, s)
      n == DispatchNormalization(a, s, in)
  IN [cl |-> n,
      launches |->
        (IF onedim_kernel
         THEN <<Launch(h, Dim3(s.std_pass1_.dim), NoLocal),
                Launch(v, Dim3(s.std_pass2_.dim), NoLocal)>>
         ELSE <<Launch(t, Dim3(s.std_pass2_.dim), NoLocal)>>)
        \o <<Launch(a, Dim3(s.std_.dim), NoLocal),
             Launch(n, Dim3(s.output.dim), NoLocal)>>]

----------------------------------------------------------------------------
(* Model files holding one Linear record, whole or cut short *)

Prefixes(s) == {SubSeq(s, 1, n) : n \in 0 .. Len(s)}

FnSeq(f, n) == [j \in 1 .. n |-> f[j - 1]]

LinearRecords ==
  UNION {
    {<<m, n>> \o FnSeq(w, m * n) \o FnSeq(b, m) :
       w \in Payloads(m * n), b \in Payloads(m)} :
    m \in 1 .. MaxOut, n \in 1 .. MaxIn}

LinearFiles == UNION {Prefixes(r) : r \in LinearRecords}

Device(maxWG, kernelMaxWG, item0, item1) ==
  [maxWG |-> maxWG, kernelMaxWG |-> kernelMaxWG,
   maxItem |-> [i \in 0 .. 2 |-> IF i = 0 THEN item0
                                 ELSE IF i = 1 THEN item1 ELSE 1]]

\* Devices whose only binding limit is max_item_size[1].
WideDevices == {Device(17, 17, 17, i1) : i1 \in DevLimitVals}

AllDevices ==
  {Device(a, b, c, d) : a \in DevLimitVals, b \in DevLimitVals,
                        c \in DevLimitVals, d \in DevLimitVals}

\* Explicit construction: new SpatialDivisiveNormalization(kernel, threshold).
SDNConstruct(kernel, threshold) ==
  /\ ~sdn.constructed
  /\ linear = NoLinear
  /\ ret = "init"
  /\ file = <<>>
  /\ IF KernelRejected(kernel)
     THEN /\ ret' = "InvalidKernel"
          /\ UNCHANGED <<sdn, nextId, live>>
     ELSE /\ sdn' = SDN_SDN(kernel, threshold, nextId)
          /\ nextId' = nextId + 1
          /\ live' = live \cup {nextId}
          /\ ret' = "constructed"
  /\ lastArg' = kernel
  /\ UNCHANGED <<dev, file, stream, linear, cl, launches, calls, pending,
               rest>>

\* SpatialDivisiveNormalization::loadFromFile(file)
SDNLoadFromFile ==
  /\ ~sdn.constructed
  /\ linear = NoLinear
  /\ ret = "init"
  /\ \E g1 \in UninitInts, g2 \in UninitInts, gf \in FloatVals,
        gt \in FloatVals :
       LET kernel_size_1 == ReadWords(file, stream, 1, g1)[0]
           s1 == ReadAdvance(file, stream, 1)
           kernel_size_2 == ReadWords(file, s1, 1, g2)[0]
           s2 == ReadAdvance(file, s1, 1)
           size == IF kernel_size_2 > 1
                   THEN <<kernel_size_1, kernel_size_2>>
                   ELSE <<kernel_size_1>>
           dim  == IF kernel_size_2 > 1
                   THEN <<kernel_size_1, kernel_size_2, 1>>
                   ELSE <<kernel_size_1, 1, 1>>
           dataSize == Product(dim)
           kernel_cpu == ReadWords(file, s2, dataSize, gf)
           s3 == ReadAdvance(file, s2, dataSize)
           kernel == setData(Tensor(nextId, dim), kernel_cpu)
           threshold == ReadWords(file, s3, 1, gt)[0]
           s4 == ReadAdvance(file, s3, 1)
       IN IF ~TensorShapeOk(size)
          THEN /\ ret' = "InvalidShape"
               /\ stream' = s2
               /\ UNCHANGED <<sdn, nextId, live>>
          ELSE IF KernelRejected(kernel)
          THEN \* the constructor throws: delete kernel and
               \* delete[] kernel_cpu are not reached
               /\ ret' = "InvalidKernel"
               /\ stream' = s4
               /\ nextId' = nextId + 2
               /\ live' = live \cup {nextId, nextId + 1}
               /\ UNCHANGED sdn
          ELSE /\ sdn' = SDN_SDN(kernel, threshold, nextId + 2)
               /\ stream' = s4
               /\ nextId' = nextId + 3
               /\ live' = live \cup {nextId + 2}
               /\ ret' = "loaded"
  /\ UNCHANGED <<dev, file, linear, cl, launches, calls, lastArg, pending,
               rest>>

\* SpatialDivisiveNormalization::forwardProp(input).  When init has deleted
\* kernel_ and reads through it, the outcomes are those of the read through
\* a null pointer: the process traps, or the read finds some tensor and the
\* call goes on with it.
SDNForwardProp(input) ==
  /\ sdn.constructed
  /\ ret \notin {"Trap", "UB"}
  /\ calls < MaxCalls
  /\ calls' = calls + 1
  /\ lastArg' = input
  /\ UNCHANGED <<dev, file, stream, linear, rest>>
  /\ IF ~SDN_TypeOk(input)
     THEN /\ ret' = "TypeMismatch"
          /\ launches' = <<>>
          /\ UNCHANGED <<sdn, cl, nextId, live, pending>>
     ELSE LET m0 == [s |-> sdn, next |-> nextId, live |-> live]
              m2 == InitOutput(InitRelease(m0, input), input)
          IN IF m2.s.kernel_ # NULL
             THEN \E m \in {SDN_init(m0, input, m2.s.kernel_)} :
                  \E r \in {SDN_launches(cl, m.s, input, m.s.kernel_)} :
                     /\ sdn' = m.s
                     /\ nextId' = m.next
                     /\ live' = m.live
                     /\ cl' = r.cl
                     /\ launches' = r.launches
                     /\ pending' = pending \o r.launches
                     /\ ret' = "ok"
             ELSE \/ /\ sdn' = m2.s
                     /\ nextId' = m2.next
                     /\ live' = m2.live
                     /\ launches' = <<>>
                     /\ ret' = "Trap"
                     /\ UNCHANGED <<cl, pending>>
                  \/ \E k \in WildKernels :
                       \E m \in {SDN_init(m0, input, k)} :
                       \E r \in {SDN_launches(cl, m.s, input, k)} :
                          /\ sdn' = m.s
                          /\ nextId' = m.next
                          /\ live' = m.live
                          /\ cl' = r.cl
                          /\ launches' = r.launches
                          /\ pending' = pending \o r.launches
                          /\ ret' = "UB"

------------------------------------------------------------------------\* ~SpatialDivisiveNormalization, lines 39-47.
SDNDestroy ==
  /\ sdn.constructed
  /\ ret \notin {"Trap", "UB"}
  /\ \E m \in {DeleteAll([s |-> sdn, next |-> nextId, live |-> live],
                         TensorFields)} :
       /\ sdn' = [m.s EXCEPT !.constructed = FALSE]
       /\ live' = m.live
  /\ ret' = "destroyed"
  /\ UNCHANGED <<dev, file, stream, linear, cl, launches, nextId, calls,
                 lastArg, pending, rest>>

\* The device finishes the oldest launch in the queue: every launch is
\* enqueued non-blocking (runKernel(..., false)).
Complete ==
  /\ pending # <<>>
  /\ pending' = Tail(pending)
  /\ UNCHANGED <<dev, file, stream, linear, sdn, cl, launches, ret, nextId,
                 live, calls, lastArg, rest>>

\* The caller blocks until the queue is empty.
Drain ==
  /\ pending # <<>>
  /\ pending' = <<>>
  /\ UNCHANGED <<dev, file, stream, linear, sdn, cl, launches, ret, nextId,
                 live, calls, lastArg, rest>>

----------------------------------------------------------------------------------------------------------------------------------------------------
(* The 32-bit size arithmetic of Linear::loadFromFile.  A header value is  *)
(* a signed 32-bit integer; wider results are little-endian byte strings.  *)

IntBytes == 4      \* sizeof(int32_t), sizeof(uint32_t)

\* No header read yet.
NoHeader == [state |-> "none"]

\* Header values: around 0, around sqrt(2^31) and around 2^16.
HeaderVals == {-65536, -1, 0, 1, 2, 3, 46340, 46341, 65536, 65537}

\* The two's-complement bytes of x: what a conversion to uint32_t keeps.
ToUint32(x) == [i \in 0 .. IntBytes - 1 |-> (x \div (256 ^ i)) % 256]

\* A byte string of n bytes holding the non-negative x < 2^31.
Widen(x, n) ==
  [i \in 0 .. n - 1 |-> IF i < IntBytes THEN (x \div (256 ^ i)) % 256 ELSE 0]

\* The signed value of the low four bytes of a byte string.
ToInt32(b) ==
  (IF b[3] >= 128 THEN b[3] - 256 ELSE b[3]) * 16777216
  + b[2] * 65536 + b[1] * 256 + b[0]

\* Schoolbook product of two 4-byte magnitudes: 8 bytes.
ColSum(a, b, k) ==
  LET Term(i) == IF k - i \in 0 .. IntBytes - 1 THEN a[i] * b[k - i] ELSE 0
  IN Term(0) + Term(1) + Term(2) + Term(3)

RECURSIVE Carry(_, _, _)
Carry(a, b, k) ==
  IF k < 0 THEN 0 ELSE (ColSum(a, b, k) + Carry(a, b, k - 1)) \div 256

MulBytes(a, b) ==
  [k \in 0 .. 2 * IntBytes - 1 |->
     (ColSum(a, b, k) + Carry(a, b, k - 1)) % 256]

\* The mathematical product x * y: sign and magnitude.
MathProduct(x, y) ==
  [neg |-> (x < 0) # (y < 0) /\ x # 0 /\ y # 0,
   mag |-> MulBytes(ToUint32(Abs(x)), ToUint32(Abs(y)))]

\* Whether a product is a value of int32_t.
FitsInt32(pr) ==
  \/ /\ \A k \in IntBytes .. 2 * IntBytes - 1 : pr.mag[k] = 0
     /\ pr.mag[3] < 128
  \/ /\ pr.neg
     /\ pr.mag = [k \in 0 .. 2 * IntBytes - 1 |-> IF k = 3 THEN 128 ELSE 0]

\* The product reduced modulo 2^32 to a value of int32_t.
WrapInt32(pr) ==
  LET low == ToInt32(pr.mag)
  IN IF pr.neg /\ low # -2147483647 - 1 THEN -low ELSE low

\* int32_t n_weights = n_outputs * n_inputs, line 168: the product when it
\* is a value of int32_t; signed overflow otherwise, which wraps or traps.
Int32Mul(x, y) ==
  LET pr == MathProduct(x, y)
  IN IF FitsInt32(pr)
     THEN {[overflow |-> FALSE, trap |-> FALSE, v |-> WrapInt32(pr)]}
     ELSE {[overflow |-> TRUE, trap |-> FALSE, v |-> WrapInt32(pr)],
           [overflow |-> TRUE, trap |-> TRUE, v |-> 0]}

\* loadFromFile on a header (n_outputs, n_inputs), lines 162-178, as far as
\* sizes go: the extents the constructor stores, the number of floats each
\* read asks for, and how the call ends.
LinearLoadHeader ==
  /\ hdr = NoHeader
  /\ Len(file) = 2
  /\ ret = "init"
  /\ \E allocated \in BOOLEAN, m \in Int32Mul(file[1], file[2]) :
       LET n_outputs == file[1]
           n_inputs  == file[2]
           sizes == [n_outputs_ |-> ToUint32(n_outputs),
                     n_inputs_  |-> ToUint32(n_inputs),
                     overflow |-> FALSE, n_weights |-> 0,
                     weightsRead |-> 0, biasesRead |-> 0]
       IN IF n_outputs = 0 \/ n_inputs = 0
          THEN \* Linear::Linear: a tensor with an extent of 0
               hdr' = sizes @@ [state |-> "InvalidShape"]
          ELSE IF ~allocated
          THEN \* Linear::Linear: the device has no room for the tensors
               hdr' = sizes @@ [state |-> "BadAlloc"]
          ELSE IF m.trap
          THEN hdr' = [sizes EXCEPT !.overflow = TRUE] @@ [state |-> "Trap"]
          ELSE IF m.v < 0
          THEN \* new float[n_weights] with a negative count
               hdr' = [sizes EXCEPT !.overflow = m.overflow,
                                    !.n_weights = m.v]
                      @@ [state |-> "BadArrayLength"]
          ELSE IF n_outputs < 0
          THEN \* new float[n_outputs] with a negative count
               hdr' = [sizes EXCEPT !.overflow = m.overflow,
                                    !.n_weights = m.v,
                                    !.weightsRead = m.v]
                      @@ [state |-> "BadArrayLength"]
          ELSE hdr' = [sizes EXCEPT !.overflow = m.overflow,
                                    !.n_weights = m.v,
                                    !.weightsRead = m.v,
                                    !.biasesRead = n_outputs]
                      @@ [state |-> "stage"]
  /\ ret' = hdr'.state
  /\ UNCHANGED <<dev, file, stream, linear, sdn, cl, launches, nextId, live,
                 calls, lastArg, pending, chain, coef>>

----
(* Reshape *)

MaxExt == 2        \* extent of a tensor handed to Reshape
MaxChain == 3      \* tensors in a chain of Reshape stages

\* Reshape(dim, size): the stage keeps the target shape in odim_, osize_.
Reshape_Reshape(size) == [odim_ |-> Len(size), osize_ |-> size]

\* outNElem(): the element count of the target shape.
outNElem(r) == Product([d \in 1 .. r.odim_ |-> r.osize_[d]])

\* init without the element-count test.
Reshape_init_NoCount(r, input) == input.type = "TENSOR_DATA"

\* init(input): the input is a tensor with as many elements as the target.
Reshape_init(r, input) ==
  /\ input.type = "TENSOR_DATA"
  /\ Product(input.dim) = outNElem(r)

\* forwardProp(input): output is a view of the input's storage under the
\* target shape.
Reshape_forwardProp(r, input) == [input EXCEPT !.dim = r.osize_]

ReshapeShapes ==
  UNION {[1 .. n -> 1 .. MaxExt] : n \in 1 .. 3}

\* The tensors at the head of a chain: pairwise different elements.
ReshapeInputs ==
  {[type |-> "TENSOR_DATA", id |-> -1, dim |-> size,
    data |-> [j \in 0 .. Product(size) - 1 |-> j + 1]] :
     size \in ReshapeShapes}

\* A Reshape stage with target shape size is constructed and run on the
\* output of the previous one.
ReshapeForwardProp(size) ==
  /\ chain # <<>>
  /\ Len(chain) < MaxChain
  /\ \E r \in {Reshape_Reshape(size)} :
       IF Reshape_init(r, chain[Len(chain)])
       THEN /\ chain' = Append(chain, Reshape_forwardProp(r, chain[Len(chain)]))
            /\ ret' = "reshaped"
       ELSE /\ ret' = "ShapeMismatch"
            /\ UNCHANGED chain
  /\ UNCHANGED <<dev, file, stream, linear, sdn, cl, launches, nextId, live,
                 calls, lastArg, pending, hdr, coef>>

----
(* Kernels, inputs and files of SpatialDivisiveNormalization *)

MaxK == 3          \* spatial extent of a normalisation kernel
MaxDepth == 2      \* third extent of a kernel tensor
MaxW == 2          \* width and height of an input
FeatVals == {1, 4} \* feature counts of an input

SDNKernels ==
  UNION {
    {[id |-> -3, dim |-> <<kw, kh, kd>>, data |-> w] :
       w \in Payloads(kw * kh * kd)} :
    kw \in 1 .. MaxK, kh \in 1 .. MaxK, kd \in 1 .. MaxDepth}

SDNInputs ==
  {Tensor(i, <<w, h, f>>) @@ [type |-> "TENSOR_DATA"] :
     i \in InputIds, w \in 1 .. MaxW, h \in 1 .. MaxW, f \in FeatVals}
  \cup {[type |-> "TABLE_DATA", id |-> -1, dim |-> <<>>,
         data |-> [j \in {} |-> 0]]}

SDNRecords ==
  UNION {
    {<<k1, k2>> \o FnSeq(w, k1 * k2) \o <<1>> : w \in Payloads(k1 * k2)} :
    k1 \in 1 .. MaxK, k2 \in 1 .. MaxK}

SDNFiles == UNION {Prefixes(r) : r \in SDNRecords}

----------------------------------------------------------------------------
(* The host-side coefficient loops of SpatialDivisiveNormalization::init *)

NoCoef == [state |-> "none"]

\* A variant that writes the coefficients column by column.
CoefIndex_Transposed(u, v, width) == u * width + v

\* Lines 121 and 144: the index of std_coef_cpu written for pixel (u, v).
CoefIndex(u, v, width) == v * width + u

\* Lines 104-117: the indices of kernel_norm_cpu read for pixel (u, v) with
\* a 1-D kernel.
KernelReads1D(u, v, width, height, kernel_size) ==
  LET filt_rad == (kernel_size - 1) \div 2
  IN UNION {{o[1] + filt_rad, o[2] + filt_rad} :
              o \in Inside(u, v, width, height, filt_rad, filt_rad)}

\* Lines 126-140: the indices of kernel_norm_cpu read for pixel (u, v) with
\* a 2-D kernel.
KernelReads2D(u, v, width, height, kernel_size_u, kernel_size_v) ==
  LET filt_rad_u == (kernel_size_u - 1) \div 2
      filt_rad_v == (kernel_size_v - 1) \div 2
  IN {(o[1] + filt_rad_v) * kernel_size_u + (o[2] + filt_rad_u) :
        o \in Inside(u, v, width, height, filt_rad_u, filt_rad_v)}

\* init of a freshly constructed stage up to line 100: output and
\* kernel_norm_ are allocated, the two host buffers are allocated, and the
\* loops are about to start at v = 0, u = 0.
CoefStart(kernel, in) ==
  LET m0 == [s |-> SDN_SDN(kernel, 0, 1), next |-> 2, live |-> {1}]
      m  == InitKernelNorm(InitOutput(m0, in), in, kernel)
  IN [state |-> "loop",
      kernel_norm_ |-> m.s.kernel_norm_,
      onedim_kernel |-> (kernel.dim[2] = 1),
      n_feats |-> m.s.output.dim[3],
      height |-> m.s.output.dim[2],
      width |-> m.s.output.dim[1],
      v |-> 0, u |-> 0,
      reads |-> {}, writes |-> <<>>]

CoefStarts ==
  {CoefStart(kernel, in) :
     kernel \in {k \in SDNKernels : ~KernelRejected(k)},
     in \in {t \in SDNInputs : SDN_TypeOk(t) /\ t.id = -1}}

\* One iteration of the loops over v and u, lines 106-122 and 130-145.
CoefPixel ==
  /\ coef.state = "loop"
  /\ LET kn == coef.kernel_norm_
         r  == IF coef.onedim_kernel
               THEN KernelReads1D(coef.u, coef.v, coef.width, coef.height,
                                  kn.dim[1])
               ELSE KernelReads2D(coef.u, coef.v, coef.width, coef.height,
                                  kn.dim[1], kn.dim[2])
         last_u == coef.u + 1 = coef.width
         last_v == coef.v + 1 = coef.height
     IN coef' = [coef EXCEPT
                   !.reads = @ \cup r,
                   !.writes = Append(@, CoefIndex(coef.u, coef.v, coef.width)),
                   !.u = IF last_u THEN 0 ELSE @ + 1,
                   !.v = IF last_u THEN @ + 1 ELSE @,
                   !.state = IF last_u /\ last_v THEN "done" ELSE @]
  /\ UNCHANGED <<dev, file, stream, linear, sdn, cl, launches, ret, nextId,
                 live, calls, lastArg, pending, chain, hdr>>

----------------------------------------------------------------------------
(* Specifications *)

InitStage ==
  /\ stream = [pos |-> 1, fail |-> FALSE]
  /\ linear = NoLinear
  /\ sdn = NoSDN
  /\ cl = FreshContext
  /\ launches = <<>>
  /\ ret = "init"
  /\ nextId = 1
  /\ live = {}
  /\ calls = 0
  /\ lastArg = NoInput
  /\ pending = <<>>
  /\ hdr = NoHeader

InitCommon == InitStage /\ chain = <<>> /\ coef = NoCoef

\* One stage, loaded from a whole Linear record or constructed from a
\* kernel, and run forward.
Init ==
  /\ \/ dev \in WideDevices /\ file \in LinearRecords
     \/ dev = Device(17, 17, 17, 17) /\ file = <<>>
  /\ InitCommon

Next ==
  \/ LinearLoadFromFile
  \/ \E kernel \in SDNKernels, threshold \in FloatVals :
       SDNConstruct(kernel, threshold)
  \/ \E input \in LinearInputs(MaxIn) : LinearForwardProp(input)
  \/ \E input \in SDNInputs : SDNForwardProp(input)

Spec == Init /\ [][Next]_vars

\* The life of one SpatialDivisiveNormalization: construction, forward
\* calls, the queue emptying at its own pace or drained by the caller, and
\* destruction.
InitLife ==
  /\ dev = Device(17, 17, 17, 17)
  /\ file = <<>>
  /\ InitCommon

NextLife ==
  \/ \E kernel \in SDNKernels, threshold \in FloatVals :
       SDNConstruct(kernel, threshold)
  \/ \E input \in SDNInputs : SDNForwardProp(input)
  \/ Complete
  \/ Drain
  \/ SDNDestroy

SpecLife == InitLife /\ [][NextLife]_vars

\* Chains of Reshape stages on one tensor.
InitReshape ==
  /\ dev = Device(17, 17, 17, 17)
  /\ file = <<>>
  /\ InitStage
  /\ chain \in {<<t>> : t \in ReshapeInputs}
  /\ coef = NoCoef

NextReshape == \E size \in ReshapeShapes : ReshapeForwardProp(size)

SpecReshape == InitReshape /\ [][NextReshape]_vars

\* Linear::loadFromFile on headers of every magnitude.
InitHeader ==
  /\ dev = Device(17, 17, 17, 17)
  /\ file \in {<<n_outputs, n_inputs>> :
                 n_outputs \in HeaderVals, n_inputs \in HeaderVals}
  /\ InitCommon

NextHeader == LinearLoadHeader

SpecHeader == InitHeader /\ [][NextHeader]_vars

\* The two loaders on model files, whole or cut short.
InitLoad ==
  /\ dev = Device(17, 17, 17, 17)
  /\ file \in LinearFiles \cup SDNFiles
  /\ InitCommon

NextLoad ==
  \/ LinearLoadFromFile
  \/ SDNLoadFromFile

SpecLoad == InitLoad /\ [][NextLoad]_vars

\* The coefficient loops of init on every accepted kernel and output size.
InitCoef ==
  /\ dev = Device(17, 17, 17, 17)
  /\ file = <<>>
  /\ InitStage
  /\ chain = <<>>
  /\ coef \in CoefStarts

NextCoef == CoefPixel

SpecCoef == InitCoef /\ [][NextCoef]_vars

\* A Linear stage constructed directly and run on every device.
InitPartition ==
  /\ dev \in AllDevices
  /\ file = <<>>
  /\ InitCommon

NextPartition ==
  \/ \E n_outputs \in 1 .. MaxRows : LinearConstruct(1, n_outputs)
  \/ \E input \in LinearInputs(1) : LinearForwardProp(input)

SpecPartition == InitPartition /\ [][NextPartition]_vars

----------------------------------------------------------------------------
(* Claims *)

\* A step that is a forwardProp call of the stage (only forwardProp counts
\* calls); lastArg' is its argument.  A step that is a constructor call is
\* the only one that sets lastArg without counting a call.
SDNForwardStep == sdn.constructed /\ calls' = calls + 1
LinearForwardStep == linear # NoLinear /\ calls' = calls + 1
SDNConstructStep == calls' = calls /\ lastArg' # lastArg

SameShape(input) ==
  /\ sdn.output # NULL
  /\ input.type = "TENSOR_DATA"
  /\ input.dim = sdn.output.dim

ShapeChange(input) ==
  /\ sdn.output # NULL
  /\ input.type = "TENSOR_DATA"
  /\ input.dim # sdn.output.dim

\* C1: after a successful forward with shape S, a SpatialDivisiveNormalization
\* forward with an input of another shape S' completes successfully, reads
\* through no null pointer, and leaves output, std_pass1_ and std_pass2_
\* newly allocated with shape exactly S'.
C1_ReallocatesOnShapeChange ==
  [][(SDNForwardStep /\ ShapeChange(lastArg'))
     => /\ ret' = "ok"
        /\ sdn'.kernel_ # NULL
        /\ sdn'.kernel_norm_ # NULL
        /\ sdn'.output.dim = lastArg'.dim
        /\ sdn'.std_pass1_.dim = lastArg'.dim
        /\ sdn'.std_pass2_.dim = lastArg'.dim
        /\ sdn'.output.id \notin live
        /\ sdn'.output.id \in live']_vars

\* C2: a forward call of either stage that follows a successful forward and
\* whose input has the same shape leaves the output tensor the same object:
\* nothing is released and nothing is allocated during the call.
C2_NoReallocSameShape ==
  [][/\ (SDNForwardStep /\ SameShape(lastArg'))
        => /\ sdn'.output.id = sdn.output.id
           /\ sdn'.output.dim = sdn.output.dim
           /\ live' = live
           /\ nextId' = nextId
     /\ (/\ LinearForwardStep
         /\ ret = "ok"
         /\ lastArg'.type = "TENSOR_DATA"
         /\ lastArg'.dim = lastArg.dim)
        => /\ linear'.output.id = linear.output.id
           /\ linear'.output.dim = linear.output.dim
           /\ live' = live
           /\ nextId' = nextId]_vars

\* Two successful forward calls of the normalisation stage have been made
\* (a second call with another shape never ends "ok").
C2_Witness ==
  /\ calls = 2
  /\ ret = "ok"
  /\ sdn.output # NULL
  /\ Len(launches) = 4

\* C3: the first forward of a SpatialDivisiveNormalization computes
\* kernel_norm_ and std_coef_, and every later forward with an input of the
\* same shape leaves both tensors' identity and contents unchanged.
C3_CoefficientsComputedOnce ==
  [][/\ (SDNForwardStep /\ SameShape(lastArg'))
        => /\ sdn'.kernel_norm_ = sdn.kernel_norm_
           /\ sdn'.std_coef_ = sdn.std_coef_
     /\ (/\ SDNForwardStep
         /\ sdn.output = NULL
         /\ lastArg'.type = "TENSOR_DATA")
        => /\ sdn'.kernel_norm_ # NULL
           /\ sdn'.std_coef_ # NULL
           /\ sdn'.kernel_norm_.id \notin live
           /\ sdn'.std_coef_.id \notin live]_vars

\* A second forward with the same shape has run on a stage with a 2-D
\* kernel, whose coefficients differ from pixel to pixel.
C3_Witness ==
  /\ calls = 2
  /\ ret = "ok"
  /\ sdn.kernel_norm_ # NULL
  /\ sdn.kernel_norm_.dim = <<3, 3, 1>>
  /\ sdn.std_coef_.dim = <<2, 2, 1>>
  /\ sdn.std_coef_.data[0].n > 0

Even(x) == \E q \in 0 .. x : x = 2 * q

\* C7: constructing a SpatialDivisiveNormalization fails exactly when the
\* kernel's first or second extent is even or its third extent is not 1;
\* a failed construction allocates nothing and leaves no stage, a successful
\* one holds a clone of the kernel and no other tensor.
C7_ConstructorValidation ==
  [][SDNConstructStep
     => LET kernel == lastArg'
            bad == \/ Even(kernel.dim[1])
                   \/ Even(kernel.dim[2])
                   \/ kernel.dim[3] # 1
        IN /\ (ret' = "InvalidKernel") <=> bad
           /\ bad => /\ sdn' = NoSDN
                     /\ live' = live
                     /\ nextId' = nextId
           /\ ~bad => /\ ret' = "constructed"
                      /\ sdn'.constructed
                      /\ sdn'.kernel_.id \notin live
                      /\ sdn'.kernel_.id # kernel.id
                      /\ sdn'.kernel_.dim = kernel.dim
                      /\ sdn'.kernel_.data = kernel.data
                      /\ live' = live \cup {sdn'.kernel_.id}
                      /\ \A f \in {"output", "kernel_norm_", "std_coef_",
                                   "std_pass1_", "std_pass2_", "std_"} :
                           sdn'[f] = NULL]_vars

\* A stage has been constructed from a 3 x 3 x 1 kernel and is Unallocated.
C7_Witness ==
  /\ ret = "constructed"
  /\ sdn.constructed
  /\ sdn.kernel_.dim = <<3, 3, 1>>
  /\ sdn.output = NULL

\* C10: a forward whose input is not a tensor, or for Linear not a 1-D tensor
\* of length n_inputs, fails with no kernel selected, no argument bound and
\* no launch made, and leaves every tensor of the stage as it was.
C10_BadInputRejected ==
  [][/\ (SDNForwardStep /\ lastArg'.type # "TENSOR_DATA")
        => /\ ret' = "TypeMismatch"
           /\ sdn' = sdn
           /\ cl' = cl
           /\ launches' = <<>>
           /\ live' = live
     /\ (/\ LinearForwardStep
         /\ \/ lastArg'.type # "TENSOR_DATA"
            \/ Len(lastArg'.dim) # 1
            \/ lastArg'.dim[1] # linear.n_inputs_)
        => /\ ret' = "AssertFailed"
           /\ linear' = linear
           /\ cl' = cl
           /\ launches' = <<>>
           /\ live' = live]_vars

\* A non-tensor input was refused by a stage that had already run forward:
\* its tensors and the bound arguments of the earlier call are still there.
C10_Witness ==
  /\ ret = "TypeMismatch"
  /\ calls = 2
  /\ sdn.output # NULL
  /\ sdn.std_coef_ # NULL
  /\ cl.kernel = "SpatialDivisiveNormalization"

\* The sum over k in 0 .. n-1 of W[i + m*k] * x[k].
RECURSIVE RowDot(_, _, _, _, _)
RowDot(W, x, m, i, n) ==
  IF n = 0 THEN 0
  ELSE RowDot(W, x, m, i, n - 1) + W[i + m * (n - 1)] * x[n - 1]

\* C4: for every weight matrix, bias, input and column factor p, a Linear
\* forward with a valid input leaves output[i] = (sum over k of
\* W[i][k] * x[k]) + b[i], W[i][k] being the weight at linear index i + m*k.
C4_ForwardIsMatVecPlusBias ==
  [][(/\ LinearForwardStep
      /\ lastArg'.type = "TENSOR_DATA"
      /\ lastArg'.dim = <<linear.n_inputs_>>)
     => /\ ret' = "ok"
        /\ linear'.output.data =
             [i \in 0 .. linear.n_outputs_ - 1 |->
                RowDot(linear.weights_.data, lastArg'.data,
                       linear.n_outputs_, i, linear.n_inputs_)
                + linear.biases_.data[i]]]_vars

\* The matrix the matrix-vector kernel multiplies by: for (row o, column i)
\* the element of weights_ it reads.
KernelMatrix(l) ==
  [oi \in (0 .. l.n_outputs_ - 1) \X (0 .. l.n_inputs_ - 1) |->
     l.weights_.data[AIndex(oi[1], oi[2], l.n_outputs_)]]

\* The payload of the Linear record in file, read in output-major /
\* input-minor order.
PayloadOutputMajor ==
  [oi \in (0 .. file[1] - 1) \X (0 .. file[2] - 1) |->
     file[3 + oi[1] * file[2] + oi[2]]]

LoadedWhole == linear # NoLinear /\ ~stream.fail /\ Len(file) >= 2

\* C5: in a stage loaded from a whole record, the element the
\* kernel reads for (row o, column i) is the payload float at index
\* o * n_inputs + i.
C5_KernelReadsOutputMajor ==
  LoadedWhole => KernelMatrix(linear) = PayloadOutputMajor

\* C6: a loader that meets a short read returns no stage.
C6_TruncatedFileYieldsNoStage ==
  stream.fail => (linear = NoLinear /\ ~sdn.constructed)

\* The local size handed to runKernel with the matrix-vector kernel.
MatVecLaunches ==
  {launches[j] : j \in {j \in 1 .. Len(launches) :
                         launches[j].kernel = "MatVecMultThreads"}}

\* C8: the local size {row factor, p} passed with global size
\* {n_outputs, p} is legal: each local extent divides the global extent,
\* row factor * p is at most the kernel's max work-group size, and each
\* local extent is at most the device's max work-item size of its dimension.
C8_LocalSizeLegal ==
  \A l \in MatVecLaunches :
    /\ \A i \in {0, 1} :
         /\ l.local[i] >= 1
         /\ \E q \in 1 .. l.global[i] : l.global[i] = q * l.local[i]
         /\ l.local[i] <= dev.maxItem[i]
    /\ l.local[0] * l.local[1] <= dev.kernelMaxWG

\* The reference heuristic.
RefColFactor == Min(Min(16, dev.maxItem[1]), dev.kernelMaxWG)

RefRowFactor(n_outputs) ==
  LET p     == RefColFactor
      start == Min(n_outputs \div p + 1, dev.maxWG \div p)
      fits  == {r \in 2 .. start :
                  /\ \E q \in 1 .. n_outputs : n_outputs = q * r
                  /\ r * p <= dev.kernelMaxWG}
  IN IF fits = {} THEN 1
     ELSE CHOOSE r \in fits : \A r2 \in fits : r2 <= r

\* C9: the work partition that Linear forward computes and hands to
\* runKernel is the reference heuristic's.
C9_PartitionIsReference ==
  [][(/\ LinearForwardStep
      /\ lastArg'.type = "TENSOR_DATA"
      /\ lastArg'.dim = <<linear.n_inputs_>>)
     => /\ MatVecLaunches' # {}
        /\ \A l \in MatVecLaunches' :
             /\ l.global = Dim2(linear.n_outputs_, RefColFactor)
             /\ l.local = Dim2(RefRowFactor(linear.n_outputs_),
                               RefColFactor)]_vars

\* The stage-owned buffers a queued launch references.
OwnedBuffers(l) ==
  {l.args[i].v : i \in {i \in DOMAIN l.args :
                          l.args[i].kind = "buffer" /\ l.args[i].v > 0}}

\* C11: no forward of a SpatialDivisiveNormalization releases a buffer that
\* a launch still in the queue references: by the time init releases the
\* stage's tensors, the launches of the earlier forward have completed or
\* the queue has been drained.
C11_NoReleaseWhilePending ==
  [][SDNForwardStep
     => \A j \in 1 .. Len(pending) : OwnedBuffers(pending[j]) \subseteq live']_vars

\* C12: no tensor of the stage is used after its release, no pointer of the
\* stage dangles (so none can be released twice), and after the destructor
\* no tensor the stage allocated or cloned is left allocated.
C12_ReleasedExactlyOnce ==
  /\ ret \notin {"Trap", "UB"}
  /\ \A i \in 1 .. Len(TensorFields) :
       sdn[TensorFields[i]] # NULL => sdn[TensorFields[i]].id \in live
  /\ ret = "destroyed" => live = {}

\* The entry names of a sequence of launches; the buffer a launch writes and
\* the buffers it reads.
Names(ls) == [j \in 1 .. Len(ls) |-> ls[j].kernel]
Written(l) == l.args[WriteArg(l.kernel)]
Read(l) ==
  {l.args[i] : i \in {i \in DOMAIN l.args :
                        /\ l.args[i].kind = "buffer"
                        /\ i # WriteArg(l.kernel) \/ l.kernel = "Accum"}}

\* Every launch that reads a buffer some other launch of the sequence
\* writes comes after a launch that writes it.
ReadsFollowWrites(ls) ==
  \A j \in 1 .. Len(ls) : \A b \in Read(ls[j]) :
    (\E k \in 1 .. Len(ls) : k # j /\ Written(ls[k]) = b)
    => \E k \in 1 .. j - 1 : Written(ls[k]) = b

\* C13: a forward that completes has issued its launches in the fixed order,
\* each reader after the writer of what it reads: Linear the matrix-vector
\* kernel then Accum on the same output; SpatialDivisiveNormalization Horiz
\* (input to std_pass1_), Vert (std_pass1_ to std_pass2_), AccumDiv
\* (std_pass2_ and std_coef_ to std_), Normalization (input and std_ to
\* output) for a kernel of second extent 1, and otherwise the 2D pass (input
\* to std_pass2_), AccumDiv, Normalization.  A forward that fails has issued
\* a prefix of that order.
C13_LaunchOrder ==
  [][/\ (LinearForwardStep /\ ret' = "ok")
        => /\ Names(launches') = <<"MatVecMultThreads", "Accum">>
           /\ Written(launches'[1]) = BufArg(linear'.output)
           /\ Written(launches'[2]) = BufArg(linear'.output)
           /\ Read(launches'[2]) =
                {BufArg(linear'.output), BufArg(linear'.biases_)}
           /\ ReadsFollowWrites(launches')
     /\ (LinearForwardStep /\ ret' # "ok")
        => Names(launches') \in {<<>>, <<"MatVecMultThreads">>}
     /\ (SDNForwardStep /\ ret' \in {"TypeMismatch", "Trap"})
        => launches' = <<>>
     /\ (SDNForwardStep /\ ret' = "ok")
        => LET in == BufArg(lastArg')
               s  == sdn'
               n  == Len(launches')
               acc  == launches'[n - 1]
               norm == launches'[n]
           IN /\ ReadsFollowWrites(launches')
              /\ IF s.kernel_.dim[2] = 1
                 THEN /\ Names(launches') =
                           <<"SpatialDivisiveNormalizationHoriz",
                             "SpatialDivisiveNormalizationVert",
                             "SpatialDivisiveNormalizationAccumDiv",
                             "SpatialDivisiveNormalization">>
                      /\ launches'[1].args[0] = in
                      /\ Written(launches'[1]) = BufArg(s.std_pass1_)
                      /\ launches'[2].args[0] = BufArg(s.std_pass1_)
                      /\ Written(launches'[2]) = BufArg(s.std_pass2_)
                 ELSE /\ Names(launches') =
                           <<"SpatialDivisiveNormalization2D",
                             "SpatialDivisiveNormalizationAccumDiv",
                             "SpatialDivisiveNormalization">>
                      /\ launches'[1].args[0] = in
                      /\ Written(launches'[1]) = BufArg(s.std_pass2_)
              /\ acc.args[0] = BufArg(s.std_pass2_)
              /\ acc.args[2] = BufArg(s.std_coef_)
              /\ Written(acc) = BufArg(s.std_)
              /\ norm.args[0] = in
              /\ norm.args[2] = BufArg(s.std_)
              /\ Written(norm) = BufArg(s.output)]_vars

\* A forward through the two separable passes has completed.
C13_Witness ==
  /\ ret = "ok"
  /\ sdn.constructed
  /\ Len(launches) = 4
  /\ launches[2].kernel = "SpatialDivisiveNormalizationVert"
  /\ sdn.kernel_.dim = <<3, 1, 1>>

\* C14: every launch is made with each positional argument of its kernel
\* bound after the most recent kernel selection, so none runs with a value
\* left over from an earlier dispatch.
C14_ArgumentsBoundBeforeLaunch ==
  \A j \in 1 .. Len(launches) :
    launches[j].bound = 0 .. KernelArity(launches[j].kernel) - 1

\* A second Linear forward has launched both kernels: their kernel objects
\* still held the arguments of the first forward when they were selected.
C14_Witness ==
  /\ calls = 2
  /\ ret = "ok"
  /\ linear # NoLinear
  /\ Len(launches) = 2
  /\ Len(pending) = 4

\* C15: forward never binds its input as the destination of a launch; what
\* a launch writes is a tensor the stage owns, and the input is none of the
\* tensors the stage allocates and releases.
C15_InputNeverWritten ==
  \A j \in 1 .. Len(launches) :
    /\ Written(launches[j]) # BufArg(lastArg)
    /\ Written(launches[j]).kind = "buffer"
    /\ Written(launches[j]).v \in live
    /\ lastArg.id \notin live

\* A forward through the 2-D pass has bound its input as the source of its
\* first and last launch.
C15_Witness ==
  /\ ret = "ok"
  /\ sdn.constructed
  /\ Len(launches) = 3
  /\ launches[1].args[0] = BufArg(lastArg)
  /\ launches[3].args[0] = BufArg(lastArg)

C18_SizesExact ==
  hdr.state # "none"
  => /\ ~hdr.overflow
     /\ hdr.state = "stage"
        => /\ MathProduct(file[1], file[2]) =
                [neg |-> FALSE, mag |-> Widen(hdr.weightsRead, 2 * IntBytes)]
           /\ hdr.biasesRead = file[1]
           /\ file[1] >= 0 /\ hdr.n_outputs_ = Widen(file[1], IntBytes)
           /\ file[2] >= 0 /\ hdr.n_inputs_ = Widen(file[2], IntBytes)

\* C19: the shrink loop of Linear forward never evaluates n_outputs modulo
\* 0 and ends with a row factor between 1 and its starting value.
C19_ShrinkLoopSafe ==
  /\ ret # "Trap"
  /\ \A l \in MatVecLaunches :
       /\ l.local[0] >= 1
       /\ l.local[0] <= RowFactorStart(linear.n_outputs_, l.local[1], dev)

\* C20: in every state in which a forward of the normalisation stage has
\* issued a launch for an input of shape (w, h, f), output, std_pass1_,
\* std_pass2_, kernel_norm_, std_coef_ and std_ are allocated, the first
\* three with shape (w, h, f), std_coef_ and std_ with shape (w, h, 1), and
\* kernel_norm_ with the shape of kernel_.
C20_AllocatedWithShapes ==
  (sdn.constructed /\ launches # <<>>)
  => /\ \A f \in {"output", "std_pass1_", "std_pass2_", "kernel_norm_",
                  "std_coef_", "std_"} : sdn[f] # NULL
     /\ sdn.output.dim = lastArg.dim
     /\ sdn.std_pass1_.dim = lastArg.dim
     /\ sdn.std_pass2_.dim = lastArg.dim
     /\ sdn.std_coef_.dim = <<lastArg.dim[1], lastArg.dim[2], 1>>
     /\ sdn.std_.dim = <<lastArg.dim[1], lastArg.dim[2], 1>>
     /\ sdn.kernel_norm_.dim = sdn.kernel_.dim

\* C21: in the coefficient loops of init, for every output size and every
\* accepted kernel, every read of the host kernel buffer is at an index
\* below the kernel's element count, every write of the host coefficient
\* buffer is at an index below width * height, no coefficient is written
\* twice, and when the loops end each of the width * height coefficients
\* has been written.
C21_CoefIndicesInBounds ==
  coef.state # "none"
  => /\ coef.reads \subseteq 0 .. Product(coef.kernel_norm_.dim) - 1
     /\ \A i \in 1 .. Len(coef.writes) :
          coef.writes[i] \in 0 .. coef.width * coef.height - 1
     /\ \A i, j \in 1 .. Len(coef.writes) :
          coef.writes[i] = coef.writes[j] => i = j
     /\ coef.state = "done"
        => {coef.writes[i] : i \in 1 .. Len(coef.writes)}
           = 0 .. coef.width * coef.height - 1

C21_Witness ==
  /\ coef.state = "done"
  /\ coef.width = 2 /\ coef.height = 2
  /\ coef.kernel_norm_.dim = <<3, 3, 1>>
  /\ coef.reads = 0 .. 8
  /\ Len(coef.writes) = 4

\* C22: SpatialDivisiveNormalization::loadFromFile releases its temporary
\* kernel tensor and its temporary host buffer on every exit path: after a
\* load that failed nothing the load allocated is still allocated, and after
\* a load that returned a stage only the stage's own tensor, kernel_, is.
C22_LoadReleasesTemporaries ==
  /\ (~sdn.constructed /\ linear = NoLinear /\ ret # "init") => live = {}
  /\ sdn.constructed => live = {sdn.kernel_.id}

====
